---- MODULE Spec2Model ----
(***************************************************************************)
(* A model of tools/btc_perp_trader/strategies.py: the Order / Position    *)
(* records, Position.fill_order and Position.unrealized_pnl, and the TCL   *)
(* and SMOG strategies (detect_setup, calculate_entries, manage_position, *)
(* should_exit).                                                           *)
(*                                                                         *)
(* Numbers.  The program computes in 64-bit floats; the model computes in  *)
(* exact rational arithmetic, so every statement below is about the real   *)
(* numbers the floats approximate.  Prices and ratios are normalised       *)
(* fractions of integers (Rat).  The TCL risk factor is a sum of three     *)
(* fractions whose common denominator does not fit a machine integer, so   *)
(* it, and the base size derived from it, are fractions of arbitrary       *)
(* precision naturals (BigRat).  A USD amount is the exact product k * u   *)
(* of a Rat k and a BigRat u (Amt); within one position every amount is a  *)
(* rational multiple of the same u.                                        *)
(***************************************************************************)
EXTENDS Integers, Sequences, FiniteSets, TLC

\* pos:      the position (NoPos before one is created)
\* candles:  the most recent KeepBars bars of the candle window, oldest first
\* ticks:    manage_position calls so far
\* exit:     what the last should_exit that closed the position returned
\* fill_log: the order indices fill_order has been called on, in call order
\* balance:  the account balance calculate_entries was given
\* scan:     what the last detect_setup call saw: the number of bars of its
\*           window and the values the indicator functions returned on it
\* detected: what that detect_setup call returned (NoSetup for None)
\* params:   the options dict the TCL strategy was constructed with, a set
\*           of <<key, value>> pairs
VARIABLES pos, candles, ticks, exit, fill_log, balance, scan, detected, params

vars == <<pos, candles, ticks, exit, fill_log, balance, scan, detected, params>>

(***************************************************************************)
(* Bounds of the model.                                                    *)
(***************************************************************************)
\* manage_position calls per behaviour
MaxTicks == 3
\* bars of the candle window the model keeps (the code reads the last 5
\* highs/lows and detect_fvgs the last 10 bars and the two before them)
KeepBars == 12

(***************************************************************************)
(* Exact rationals over the integers: [n |-> numerator, d |-> denominator] *)
(* with d > 0 and gcd(n, d) = 1.                                           *)
(***************************************************************************)
Abs(x) == IF x < 0 THEN -x ELSE x

RECURSIVE Gcd(_, _)
Gcd(a, b) == IF b = 0 THEN a ELSE Gcd(b, a % b)

R(n, d) ==
    LET g == Gcd(Abs(n), Abs(d))
        s == IF d < 0 THEN -1 ELSE 1
    IN  [n |-> s * (n \div g), d |-> s * (d \div g)]

R0 == R(0, 1)
R1 == R(1, 1)
RInt(i) == R(i, 1)

Lcm(a, b) == (a \div Gcd(a, b)) * b

RAdd(a, b) ==
    LET l == Lcm(a.d, b.d)
    IN  R(a.n * (l \div a.d) + b.n * (l \div b.d), l)

RNeg(a) == [n |-> -a.n, d |-> a.d]

RSub(a, b) == RAdd(a, RNeg(b))

RMul(a, b) ==
    LET g1 == Gcd(Abs(a.n), b.d)
        g2 == Gcd(Abs(b.n), a.d)
    IN  R((a.n \div g1) * (b.n \div g2), (a.d \div g2) * (b.d \div g1))

\* a / b, b # 0
RDiv(a, b) == RMul(a, R(b.d, b.n))

RAbs(a) == [n |-> Abs(a.n), d |-> a.d]

\* a decimal literal with three / four fractional digits
Dec3(m) == R(m, 1000)
Dec4(m) == R(m, 10000)

(***************************************************************************)
(* Arbitrary-precision naturals: little-endian sequences of limbs in       *)
(* 0 .. LimbBase-1 without leading zero limbs (<<>> is 0), and fractions   *)
(* of them (not normalised; compared by cross-multiplication).             *)
(***************************************************************************)
LimbBase == 100 * 100

RECURSIVE BigOfNat(_)
BigOfNat(n) == IF n = 0 THEN <<>> ELSE <<n % LimbBase>> \o BigOfNat(n \div LimbBase)

RECURSIVE BigAddC(_, _, _)
BigAddC(a, b, c) ==
    IF a = <<>> /\ b = <<>>
    THEN (IF c = 0 THEN <<>> ELSE <<c>>)
    ELSE LET x == IF a = <<>> THEN 0 ELSE Head(a)
             y == IF b = <<>> THEN 0 ELSE Head(b)
             s == x + y + c
         IN  <<s % LimbBase>> \o
             BigAddC(IF a = <<>> THEN a ELSE Tail(a),
                     IF b = <<>> THEN b ELSE Tail(b), s \div LimbBase)

BigAdd(a, b) == BigAddC(a, b, 0)

\* a * m + c for a limb m
RECURSIVE BigMulLimb(_, _, _)
BigMulLimb(a, m, c) ==
    IF a = <<>>
    THEN (IF c = 0 THEN <<>> ELSE <<c>>)
    ELSE LET s == Head(a) * m + c
         IN  <<s % LimbBase>> \o BigMulLimb(Tail(a), m, s \div LimbBase)

BigShift(a) == IF a = <<>> THEN a ELSE <<0>> \o a

RECURSIVE BigMul(_, _)
BigMul(a, b) ==
    IF a = <<>> \/ b = <<>>
    THEN <<>>
    ELSE IF Head(b) = 0
         THEN BigShift(BigMul(a, Tail(b)))
         ELSE BigAdd(BigMulLimb(a, Head(b), 0), BigShift(BigMul(a, Tail(b))))

\* -1, 0, 1 as a < b, a = b, a > b
RECURSIVE BigCmpFrom(_, _, _)
BigCmpFrom(a, b, i) ==
    IF i = 0 THEN 0
    ELSE IF a[i] < b[i] THEN -1
    ELSE IF a[i] > b[i] THEN 1
    ELSE BigCmpFrom(a, b, i - 1)

BigCmp(a, b) ==
    IF Len(a) < Len(b) THEN -1
    ELSE IF Len(a) > Len(b) THEN 1
    ELSE BigCmpFrom(a, b, Len(a))

\* comparison of Rats; the cross products are taken over the big naturals
RLt(a, b) ==
    IF a.n <= 0 /\ b.n >= 0 THEN a.n < 0 \/ b.n > 0
    ELSE IF a.n >= 0 /\ b.n <= 0 THEN FALSE
    ELSE LET g == Gcd(a.d, b.d)
             x == BigMul(BigOfNat(Abs(a.n)), BigOfNat(b.d \div g))
             y == BigMul(BigOfNat(Abs(b.n)), BigOfNat(a.d \div g))
         IN  IF a.n > 0 THEN BigCmp(x, y) < 0 ELSE BigCmp(x, y) > 0

RLe(a, b) == ~RLt(b, a)
RGt(a, b) == RLt(b, a)
RGe(a, b) == ~RLt(a, b)

RMin(a, b) == IF RLt(b, a) THEN b ELSE a

BR(n, d) == [n |-> n, d |-> d]
BROne == BR(BigOfNat(1), BigOfNat(1))
BRZero == BR(<<>>, BigOfNat(1))

\* of a Rat >= 0
BROfRat(r) == BR(BigOfNat(r.n), BigOfNat(r.d))

BRAdd(x, y) == BR(BigAdd(BigMul(x.n, y.d), BigMul(y.n, x.d)), BigMul(x.d, y.d))
BRMul(x, y) == BR(BigMul(x.n, y.n), BigMul(x.d, y.d))
\* x / y, y # 0
BRDiv(x, y) == BR(BigMul(x.n, y.d), BigMul(x.d, y.n))
BRLe(x, y) == BigCmp(BigMul(x.n, y.d), BigMul(y.n, x.d)) <= 0
BRLt(x, y) == BigCmp(BigMul(x.n, y.d), BigMul(y.n, x.d)) < 0
BREq(x, y) == BigCmp(BigMul(x.n, y.d), BigMul(y.n, x.d)) = 0
BRIsZero(x) == x.n = <<>>

(***************************************************************************)
(* USD amounts: [k |-> Rat, u |-> BigRat > 0] is the amount k * u; zero is *)
(* always AmtZero.  Sums and quotients are taken between amounts with the  *)
(* same u (one position's amounts all derive from one base size).          *)
(***************************************************************************)
AmtZero == [k |-> R0, u |-> BROne]

Amt(k, u) == IF k.n = 0 \/ BRIsZero(u) THEN AmtZero ELSE [k |-> k, u |-> u]

AmtOfRat(r) == Amt(r, BROne)

AmtAdd(a, b) ==
    IF a = AmtZero THEN b
    ELSE IF b = AmtZero THEN a
    ELSE Amt(RAdd(a.k, b.k), a.u)

\* r * a for a Rat r
AmtScale(r, a) == Amt(RMul(r, a.k), a.u)

\* a / b as a Rat, b # 0
AmtRatio(a, b) == RDiv(a.k, b.k)

AmtIsZero(a) == a = AmtZero
AmtPos(a) == a.k.n > 0

AmtEq(a, b) ==
    IF a = AmtZero \/ b = AmtZero THEN a = b
    ELSE IF a.u = b.u THEN a.k = b.k
    ELSE a.k.n > 0 /\ b.k.n > 0 /\
         BREq(BRMul(BROfRat(a.k), a.u), BRMul(BROfRat(b.k), b.u))

\* the value of an amount >= 0 as a BigRat
AmtVal(a) == IF a = AmtZero THEN BRZero ELSE BRMul(BROfRat(a.k), a.u)

(***************************************************************************)
(* Order and Position (dataclasses).  opened_at (a wall-clock stamp) is    *)
(* left out.  NoPos stands for "no position has been created yet".         *)
(***************************************************************************)
\* an order that does not carry the stop it was given
OrderUnprotected(side, entry_price, size_usd, tp, sl, order_type) ==
    [side |-> side, entry_price |-> entry_price, size_usd |-> size_usd,
     tp |-> tp, sl |-> R0, order_type |-> order_type, status |-> "pending"]

Order(side, entry_price, size_usd, tp, sl, order_type) ==
    [side |-> side, entry_price |-> entry_price, size_usd |-> size_usd,
     tp |-> tp, sl |-> sl, order_type |-> order_type, status |-> "pending"]

Position(strategy, side, tp, sl, metadata) ==
    [strategy |-> strategy, side |-> side, orders |-> <<>>,
     avg_entry |-> R0, total_size |-> AmtZero, tp |-> tp, sl |-> sl,
     original_sl |-> R0, sl_moved_to_be |-> FALSE, pnl |-> AmtZero,
     status |-> "open", metadata |-> metadata]

NoPos == Position("none", "none", R0, R0, [direction |-> "none"])

\* fill_order with the average taken over prices, not weighted by notional
fill_order_unweighted(self, i, fill_price) ==
    LET order == self.orders[i]
        total == AmtAdd(self.total_size, order.size_usd)
    IN  [self EXCEPT
           !.orders[i].status = "filled",
           !.total_size = total,
           !.avg_entry = IF AmtPos(self.total_size)
                         THEN RDiv(RAdd(self.avg_entry, fill_price), RInt(2))
                         ELSE fill_price]

\* Position.fill_order
fill_order(self, i, fill_price) ==
    LET order        == self.orders[i]
        old_notional == IF AmtPos(self.total_size)
                        THEN AmtScale(self.avg_entry, self.total_size)
                        ELSE AmtZero
        new_notional == AmtScale(fill_price, order.size_usd)
        total        == AmtAdd(self.total_size, order.size_usd)
    IN  [self EXCEPT
           !.orders[i].status = "filled",
           !.total_size = total,
           !.avg_entry = IF AmtPos(total)
                         THEN AmtRatio(AmtAdd(old_notional, new_notional), total)
                         ELSE fill_price]

\* unrealized_pnl computed as for a long whatever the side
unrealized_pnl_as_long(self, current_price) ==
    IF AmtIsZero(self.total_size) THEN AmtZero
    ELSE AmtScale(RDiv(RSub(current_price, self.avg_entry), self.avg_entry),
                  self.total_size)

\* Position.unrealized_pnl
unrealized_pnl(self, current_price) ==
    IF AmtIsZero(self.total_size) THEN AmtZero
    ELSE IF self.side = "long"
         THEN AmtScale(RDiv(RSub(current_price, self.avg_entry), self.avg_entry),
                       self.total_size)
         ELSE AmtScale(RDiv(RSub(self.avg_entry, current_price), self.avg_entry),
                       self.total_size)

(***************************************************************************)
(* indicators.fibonacci_retracement (the indicators module is not among    *)
(* the sources: modelled from the specification, section 4.1).             *)
(***************************************************************************)
FIB_ENTRY == Dec3(236)
FIB_LIMIT1 == Dec3(382)
FIB_LIMIT2 == Dec3(618)

fibonacci_retracement(high, low, direction) ==
    LET range == RSub(high, low)
        at(level) == IF direction = "long"
                     THEN RSub(high, RMul(level, range))
                     ELSE RAdd(low, RMul(level, range))
    IN  [entry |-> at(FIB_ENTRY), limit1 |-> at(FIB_LIMIT1), limit2 |-> at(FIB_LIMIT2)]

(***************************************************************************)
(* TCLStrategy: the attributes __init__ sets from the options dict.        *)
(***************************************************************************)
\* dict.get of __init__: the value under the key, the default without it
get(p, key, default) ==
    IF \E kv \in p : kv[1] = key
    THEN (CHOOSE kv \in p : kv[1] = key)[2]
    ELSE default

TCL_risk_per_trade_pct == get(params, "risk_per_trade_pct", RInt(2))
TCL_max_risk_pct == get(params, "max_risk_pct", RInt(50))
manage1 == get(params, "manage1", RInt(4))
manage2 == get(params, "manage2", R(73, 10))
entry_mult == get(params, "entry_mult", 1)
limit1_mult == get(params, "limit1_mult", 3)
limit2_mult == get(params, "limit2_mult", 2)

\* get_risk_pct, the local function of calculate_entries
get_risk_pct(price, sl) == RDiv(RAbs(RSub(price, sl)), price)

\* the levels with the trend extreme as every order's take-profit
TCLLevelsUnmanaged(setup) ==
    LET fib == fibonacci_retracement(setup.trend_high, setup.trend_low, setup.direction)
    IN  IF setup.direction = "long"
        THEN [entry_price |-> fib.entry, limit1_price |-> fib.limit1,
              limit2_price |-> fib.limit2,
              sl |-> RMul(setup.trend_low, Dec3(998)),
              tp_entry |-> setup.trend_high,
              tp_limit1 |-> setup.trend_high,
              tp_limit2 |-> setup.trend_high]
        ELSE [entry_price |-> fib.entry, limit1_price |-> fib.limit1,
              limit2_price |-> fib.limit2,
              sl |-> RMul(setup.trend_high, Dec3(1002)),
              tp_entry |-> setup.trend_low,
              tp_limit1 |-> setup.trend_low,
              tp_limit2 |-> setup.trend_low]

\* the stop-loss and the three take-profits of calculate_entries
TCLLevels(setup) ==
    LET fib  == fibonacci_retracement(setup.trend_high, setup.trend_low, setup.direction)
        diff == RSub(setup.trend_high, setup.trend_low)
    IN  IF setup.direction = "long"
        THEN [entry_price |-> fib.entry, limit1_price |-> fib.limit1,
              limit2_price |-> fib.limit2,
              sl |-> RMul(setup.trend_low, Dec3(998)),
              tp_entry |-> setup.trend_high,
              tp_limit1 |-> RAdd(fib.limit1, RDiv(diff, manage1)),
              tp_limit2 |-> RAdd(fib.limit2, RDiv(diff, manage2))]
        ELSE [entry_price |-> fib.entry, limit1_price |-> fib.limit1,
              limit2_price |-> fib.limit2,
              sl |-> RMul(setup.trend_high, Dec3(1002)),
              tp_entry |-> setup.trend_low,
              tp_limit1 |-> RSub(fib.limit1, RDiv(diff, manage1)),
              tp_limit2 |-> RSub(fib.limit2, RDiv(diff, manage2))]

\* risk_usd of calculate_entries
TCLRiskUsd(bal) ==
    RMin(RDiv(RMul(bal, TCL_risk_per_trade_pct), RInt(100)),
         RDiv(RMul(bal, TCL_max_risk_pct), RInt(100)))

\* risk_factor of calculate_entries (each term is >= 0)
TCLRiskFactor(lv) ==
    LET r_entry  == get_risk_pct(lv.entry_price, lv.sl)
        r_limit1 == get_risk_pct(lv.limit1_price, lv.sl)
        r_limit2 == get_risk_pct(lv.limit2_price, lv.sl)
    IN  BRAdd(BRAdd(BROfRat(RMul(RInt(entry_mult), r_entry)),
                    BROfRat(RMul(RInt(limit1_mult), r_limit1))),
              BROfRat(RMul(RInt(limit2_mult), r_limit2)))

\* base_size of calculate_entries
TCLBaseSize(risk_usd, risk_factor) ==
    IF ~BRIsZero(risk_factor)
    THEN Amt(R1, BRDiv(BROfRat(risk_usd), risk_factor))
    ELSE AmtZero

\* the orders with the 1+3+5 stack the risk factor no longer accounts for
TCLOrdersOldStack(direction, lv, base_size) ==
    << Order(direction, lv.entry_price, AmtScale(RInt(entry_mult), base_size),
             lv.tp_entry, lv.sl, "entry"),
       Order(direction, lv.limit1_price, AmtScale(RInt(limit1_mult), base_size),
             lv.tp_limit1, lv.sl, "limit1"),
       Order(direction, lv.limit2_price, AmtScale(RInt(5), base_size),
             lv.tp_limit2, lv.sl, "limit2") >>

\* the three orders of calculate_entries
TCLOrders(direction, lv, base_size) ==
    << Order(direction, lv.entry_price, AmtScale(RInt(entry_mult), base_size),
             lv.tp_entry, lv.sl, "entry"),
       Order(direction, lv.limit1_price, AmtScale(RInt(limit1_mult), base_size),
             lv.tp_limit1, lv.sl, "limit1"),
       Order(direction, lv.limit2_price, AmtScale(RInt(limit2_mult), base_size),
             lv.tp_limit2, lv.sl, "limit2") >>

\* TCLStrategy.calculate_entries
TCLCalculateEntries(setup, bal) ==
    LET lv        == TCLLevels(setup)
        base_size == TCLBaseSize(TCLRiskUsd(bal), TCLRiskFactor(lv))
        p         == Position("TCL", setup.direction, lv.tp_entry, lv.sl, setup)
    IN  [p EXCEPT !.orders = TCLOrders(setup.direction, lv, base_size)]

(***************************************************************************)
(* TCLStrategy.manage_position.  A manage step yields the position and the *)
(* list of order indices fill_order was called on, in call order.          *)
(***************************************************************************)
Highs(cndl) == [i \in 1..Len(cndl) |-> cndl[i].high]
Lows(cndl) == [i \in 1..Len(cndl) |-> cndl[i].low]

\* x[-k:] of a Python sequence
LastK(x, k) == IF Len(x) <= k THEN x ELSE SubSeq(x, Len(x) - k + 1, Len(x))

RECURSIVE RMaxSeq(_)
RMaxSeq(x) ==
    IF Len(x) = 1 THEN x[1]
    ELSE LET m == RMaxSeq(Tail(x)) IN IF RLt(m, x[1]) THEN x[1] ELSE m

RECURSIVE RMinSeq(_)
RMinSeq(x) ==
    IF Len(x) = 1 THEN x[1]
    ELSE LET m == RMinSeq(Tail(x)) IN IF RLt(x[1], m) THEN x[1] ELSE m

\* a gate that waits for half an R of adverse move
SCALE_IN_HALF_R == R(-50, 100)
\* the scale-in gate's threshold, -0.20
SCALE_IN_R == R(-20, 100)

\* current_r of the scale-in gate, or "na" where the code does not compute it
TCLCurrentR(p, current_price) ==
    IF AmtPos(p.total_size) /\ RGt(p.avg_entry, R0) /\ RGt(p.sl, R0)
    THEN LET risk_pct == RDiv(RAbs(RSub(p.avg_entry, p.sl)), p.avg_entry)
             unreal_pct == IF p.side = "long"
                           THEN RDiv(RSub(current_price, p.avg_entry), p.avg_entry)
                           ELSE RDiv(RSub(p.avg_entry, current_price), p.avg_entry)
         IN  IF RGt(risk_pct, R0)
             THEN [def |-> TRUE, r |-> RDiv(unreal_pct, risk_pct)]
             ELSE [def |-> FALSE, r |-> R0]
    ELSE [def |-> FALSE, r |-> R0]

\* the gate with the threshold itself included
TCLGateFiresInclusive(p, current_price) ==
    LET c == TCLCurrentR(p, current_price)
    IN  c.def /\ RLe(c.r, SCALE_IN_R)

\* whether the scale-in gate fires (the early return of manage_position)
TCLGateFires(p, current_price) ==
    LET c == TCLCurrentR(p, current_price)
    IN  c.def /\ RLt(c.r, SCALE_IN_R)

\* the gate's effect: every pending order becomes cancelled
CancelPending(p) ==
    [p EXCEPT !.orders = [i \in 1..Len(p.orders) |->
        IF p.orders[i].status = "pending"
        THEN [p.orders[i] EXCEPT !.status = "cancelled"]
        ELSE p.orders[i]]]

\* the level counted as reached only once the price is strictly beyond it
PriceReachedStrict(side, current_price, order) ==
    \/ side = "long" /\ RLt(current_price, order.entry_price)
    \/ side = "short" /\ RGt(current_price, order.entry_price)

\* a long's level counted as reached from below, a short's from above
PriceReachedInverted(side, current_price, order) ==
    \/ side = "long" /\ RGe(current_price, order.entry_price)
    \/ side = "short" /\ RLe(current_price, order.entry_price)

\* whether the price has reached an order's level
PriceReached(side, current_price, order) ==
    \/ side = "long" /\ RLe(current_price, order.entry_price)
    \/ side = "short" /\ RGe(current_price, order.entry_price)

\* the fill loop without the test that skips orders that are not pending
RECURSIVE TCLFillLoopAnyStatus(_, _, _, _)
TCLFillLoopAnyStatus(p, log, current_price, i) ==
    IF i > Len(p.orders) THEN [pos |-> p, log |-> log]
    ELSE IF PriceReached(p.side, current_price, p.orders[i])
         THEN TCLFillLoopAnyStatus(
                [fill_order(p, i, p.orders[i].entry_price)
                   EXCEPT !.tp = p.orders[i].tp],
                Append(log, i), current_price, i + 1)
         ELSE TCLFillLoopAnyStatus(p, log, current_price, i + 1)

\* the fill loop leaving the position's take-profit as it was
RECURSIVE TCLFillLoopKeepsTp(_, _, _, _)
TCLFillLoopKeepsTp(p, log, current_price, i) ==
    IF i > Len(p.orders) THEN [pos |-> p, log |-> log]
    ELSE IF p.orders[i].status # "pending"
         THEN TCLFillLoopKeepsTp(p, log, current_price, i + 1)
         ELSE IF PriceReached(p.side, current_price, p.orders[i])
              THEN TCLFillLoopKeepsTp(
                     fill_order(p, i, p.orders[i].entry_price),
                     Append(log, i), current_price, i + 1)
              ELSE TCLFillLoopKeepsTp(p, log, current_price, i + 1)

\* the fill loop of TCL manage_position, from order i on
RECURSIVE TCLFillLoop(_, _, _, _)
TCLFillLoop(p, log, current_price, i) ==
    IF i > Len(p.orders) THEN [pos |-> p, log |-> log]
    ELSE IF p.orders[i].status # "pending"
         THEN TCLFillLoop(p, log, current_price, i + 1)
         ELSE IF PriceReached(p.side, current_price, p.orders[i])
              THEN TCLFillLoop(
                     [fill_order(p, i, p.orders[i].entry_price)
                        EXCEPT !.tp = p.orders[i].tp],
                     Append(log, i), current_price, i + 1)
              ELSE TCLFillLoop(p, log, current_price, i + 1)

\* the breakeven trigger bands and cushions
BE_TRIGGER_LONG == Dec4(10025)
BE_TRIGGER_SHORT == Dec4(9975)
\* a long's breakeven stop with the cushion on the losing side
BE_SL_LONG_BELOW == Dec3(999)
BE_SL_LONG == Dec3(1001)
BE_SL_SHORT == Dec3(999)

\* whether the last five bars have touched the breakeven band
TCLBreakevenTouched(p, cndl) ==
    IF p.side = "long"
    THEN Len(cndl) > 5 /\
         RGt(RMaxSeq(LastK(Highs(cndl), 5)), RMul(p.avg_entry, BE_TRIGGER_LONG))
    ELSE Len(cndl) > 5 /\
         RLt(RMinSeq(LastK(Lows(cndl), 5)), RMul(p.avg_entry, BE_TRIGGER_SHORT))

\* the migration also re-capturing original_sl from the moved stop
TCLBreakevenRecaptures(p, cndl) ==
    IF ~p.sl_moved_to_be /\ TCLBreakevenTouched(p, cndl)
    THEN [p EXCEPT !.sl = RMul(p.avg_entry,
                                IF p.side = "long" THEN BE_SL_LONG ELSE BE_SL_SHORT),
                   !.original_sl = RMul(p.avg_entry,
                                IF p.side = "long" THEN BE_SL_LONG ELSE BE_SL_SHORT),
                   !.sl_moved_to_be = TRUE]
    ELSE p

\* the breakeven migration of manage_position
TCLBreakeven(p, cndl) ==
    IF ~p.sl_moved_to_be /\ TCLBreakevenTouched(p, cndl)
    THEN [p EXCEPT !.sl = RMul(p.avg_entry,
                                IF p.side = "long" THEN BE_SL_LONG ELSE BE_SL_SHORT),
                   !.sl_moved_to_be = TRUE]
    ELSE p

\* the early return also clearing the breakeven flag
TCLGateReturnClearsFlag(p) ==
    [pos |-> [CancelPending(p) EXCEPT !.sl_moved_to_be = FALSE], log |-> <<>>]

\* the early return also putting the stop back to the orders' stop
TCLGateReturnResetsSl(p) ==
    [pos |-> [CancelPending(p) EXCEPT !.sl = p.orders[1].sl], log |-> <<>>]

\* the gate's early return
TCLGateReturn(p) == [pos |-> CancelPending(p), log |-> <<>>]

\* manage_position going on to the breakeven step without any fill
TCLManagePositionUnfilled(p, current_price, cndl) ==
    IF TCLGateFires(p, current_price)
    THEN TCLGateReturn(p)
    ELSE LET f == TCLFillLoop(p, <<>>, current_price, 1)
         IN  [pos |-> TCLBreakeven(f.pos, cndl), log |-> f.log]

\* manage_position returning at the gate only when it cancelled something
TCLManagePositionReturnIfPending(p, current_price, cndl) ==
    IF /\ TCLGateFires(p, current_price)
       /\ \E i \in 1..Len(p.orders) : p.orders[i].status = "pending"
    THEN TCLGateReturn(p)
    ELSE LET f == TCLFillLoop(p, <<>>, current_price, 1)
         IN  IF AmtIsZero(f.pos.total_size)
             THEN f
             ELSE [pos |-> TCLBreakeven(f.pos, cndl), log |-> f.log]

\* TCLStrategy.manage_position
TCLManagePosition(p, current_price, cndl) ==
    IF TCLGateFires(p, current_price)
    THEN TCLGateReturn(p)
    ELSE LET f == TCLFillLoop(p, <<>>, current_price, 1)
         IN  IF AmtIsZero(f.pos.total_size)
             THEN f
             ELSE [pos |-> TCLBreakeven(f.pos, cndl), log |-> f.log]

\* should_exit (the same body in TCLStrategy and SMOGStrategy)
NoExit == [reason |-> "none", price |-> R0]

\* should_exit reporting the price it was called with
should_exit_at_market(p, current_price) ==
    IF AmtIsZero(p.total_size) THEN NoExit
    ELSE IF p.side = "long"
         THEN IF RGe(current_price, p.tp) THEN [reason |-> "tp", price |-> current_price]
              ELSE IF RLe(current_price, p.sl) THEN [reason |-> "sl", price |-> current_price]
              ELSE NoExit
         ELSE IF RLe(current_price, p.tp) THEN [reason |-> "tp", price |-> current_price]
              ELSE IF RGe(current_price, p.sl) THEN [reason |-> "sl", price |-> current_price]
              ELSE NoExit

\* should_exit with the stop tested before the target
should_exit_sl_first(p, current_price) ==
    IF AmtIsZero(p.total_size) THEN NoExit
    ELSE IF p.side = "long"
         THEN IF RLe(current_price, p.sl) THEN [reason |-> "sl", price |-> p.sl]
              ELSE IF RGe(current_price, p.tp) THEN [reason |-> "tp", price |-> p.tp]
              ELSE NoExit
         ELSE IF RGe(current_price, p.sl) THEN [reason |-> "sl", price |-> p.sl]
              ELSE IF RLe(current_price, p.tp) THEN [reason |-> "tp", price |-> p.tp]
              ELSE NoExit

should_exit(p, current_price) ==
    IF AmtIsZero(p.total_size) THEN NoExit
    ELSE IF p.side = "long"
         THEN IF RGe(current_price, p.tp) THEN [reason |-> "tp", price |-> p.tp]
              ELSE IF RLe(current_price, p.sl) THEN [reason |-> "sl", price |-> p.sl]
              ELSE NoExit
         ELSE IF RLe(current_price, p.tp) THEN [reason |-> "tp", price |-> p.tp]
              ELSE IF RGe(current_price, p.sl) THEN [reason |-> "sl", price |-> p.sl]
              ELSE NoExit

(***************************************************************************)
(* indicators.detect_fvgs (not among the sources: modelled from the        *)
(* specification, section 4.1).  Bars are 1-based here, so a gap at bar i  *)
(* compares it with bar i-2 for i >= 3; the lookback window is the last    *)
(* `lookback` bars.  Oldest first.                                         *)
(***************************************************************************)
FvgAt(cndl, i) ==
    IF RGt(cndl[i].low, cndl[i - 2].high)
    THEN [type |-> "bullish", bottom |-> cndl[i - 2].high, top |-> cndl[i].low,
          midpoint |-> RDiv(RAdd(cndl[i - 2].high, cndl[i].low), RInt(2))]
    ELSE IF RLt(cndl[i].high, cndl[i - 2].low)
    THEN [type |-> "bearish", bottom |-> cndl[i].high, top |-> cndl[i - 2].low,
          midpoint |-> RDiv(RAdd(cndl[i].high, cndl[i - 2].low), RInt(2))]
    ELSE [type |-> "none"]

RECURSIVE FvgsFrom(_, _)
FvgsFrom(cndl, i) ==
    IF i > Len(cndl) THEN <<>>
    ELSE LET f == FvgAt(cndl, i)
         IN  (IF f.type = "none" THEN <<>> ELSE <<f>>) \o FvgsFrom(cndl, i + 1)

detect_fvgs(cndl, lookback) ==
    LET first == IF Len(cndl) - lookback + 1 > 3 THEN Len(cndl) - lookback + 1 ELSE 3
    IN  FvgsFrom(cndl, first)

\* [f for f in fvgs if f['type'] == type]
RECURSIVE FvgsOfType(_, _)
FvgsOfType(fvgs, type) ==
    IF fvgs = <<>> THEN <<>>
    ELSE (IF Head(fvgs).type = type THEN <<Head(fvgs)>> ELSE <<>>)
         \o FvgsOfType(Tail(fvgs), type)

(***************************************************************************)
(* SMOGStrategy.                                                           *)
(***************************************************************************)
min_rr == RInt(4)
SMOG_risk_per_trade_pct == R(15, 10)
TRAIL_LOOKBACK == 10

\* calculate_entries with the stop at the gap's edge, without the tick beyond
SMOGCalculateEntriesStopAtGap(setup, bal) ==
    LET fvg           == setup.fvg
        direction     == setup.direction
        entry_price   == fvg.midpoint
        sl            == IF direction = "long" THEN fvg.bottom ELSE fvg.top
        risk_per_unit == IF direction = "long"
                         THEN RSub(entry_price, sl)
                         ELSE RSub(sl, entry_price)
        tp            == IF direction = "long"
                         THEN RAdd(entry_price, RMul(risk_per_unit, min_rr))
                         ELSE RSub(entry_price, RMul(risk_per_unit, min_rr))
        risk_usd      == RDiv(RMul(bal, SMOG_risk_per_trade_pct), RInt(100))
        risk_pct_dist == RDiv(RAbs(RSub(entry_price, sl)), entry_price)
        size_usd      == IF RGt(risk_pct_dist, R0)
                         THEN AmtOfRat(RDiv(risk_usd, risk_pct_dist))
                         ELSE AmtZero
        p             == Position("SMOG", direction, tp, sl, setup)
    IN  IF RLe(risk_per_unit, R0) THEN NoPos
        ELSE [p EXCEPT !.orders =
                 << Order(direction, entry_price, size_usd, tp, sl, "entry") >>]

\* SMOGStrategy.calculate_entries; NoPos is the None it returns
SMOGCalculateEntries(setup, bal) ==
    LET fvg           == setup.fvg
        direction     == setup.direction
        entry_price   == fvg.midpoint
        sl            == IF direction = "long"
                         THEN RMul(fvg.bottom, Dec3(999))
                         ELSE RMul(fvg.top, Dec3(1001))
        risk_per_unit == IF direction = "long"
                         THEN RSub(entry_price, sl)
                         ELSE RSub(sl, entry_price)
        tp            == IF direction = "long"
                         THEN RAdd(entry_price, RMul(risk_per_unit, min_rr))
                         ELSE RSub(entry_price, RMul(risk_per_unit, min_rr))
        risk_usd      == RDiv(RMul(bal, SMOG_risk_per_trade_pct), RInt(100))
        risk_pct_dist == RDiv(RAbs(RSub(entry_price, sl)), entry_price)
        size_usd      == IF RGt(risk_pct_dist, R0)
                         THEN AmtOfRat(RDiv(risk_usd, risk_pct_dist))
                         ELSE AmtZero
        p             == Position("SMOG", direction, tp, sl, setup)
    IN  IF RLe(risk_per_unit, R0) THEN NoPos
        ELSE [p EXCEPT !.orders =
                 << Order(direction, entry_price, size_usd, tp, sl, "entry") >>]

\* the fill loop of SMOG manage_position, from order i on
RECURSIVE SMOGFillLoop(_, _, _, _)
SMOGFillLoop(p, log, current_price, i) ==
    IF i > Len(p.orders) THEN [pos |-> p, log |-> log]
    ELSE IF p.orders[i].status # "pending"
         THEN SMOGFillLoop(p, log, current_price, i + 1)
         ELSE IF PriceReached(p.side, current_price, p.orders[i])
              THEN SMOGFillLoop(fill_order(p, i, p.orders[i].entry_price),
                                Append(log, i), current_price, i + 1)
              ELSE SMOGFillLoop(p, log, current_price, i + 1)

\* the trailing without the test that the new stop is more favourable
SMOGTrailUnconditional(p, cndl) ==
    LET fvgs == detect_fvgs(cndl, TRAIL_LOOKBACK)
        mine == FvgsOfType(fvgs, IF p.side = "long" THEN "bullish" ELSE "bearish")
    IN  IF mine = <<>> THEN p
        ELSE [p EXCEPT !.sl = IF p.side = "long"
                              THEN mine[Len(mine)].bottom
                              ELSE mine[Len(mine)].top]

\* the FVG trailing of SMOG manage_position
SMOGTrail(p, cndl) ==
    LET fvgs == detect_fvgs(cndl, TRAIL_LOOKBACK)
        mine == FvgsOfType(fvgs, IF p.side = "long" THEN "bullish" ELSE "bearish")
    IN  IF mine = <<>> THEN p
        ELSE LET new_sl == IF p.side = "long"
                           THEN mine[Len(mine)].bottom
                           ELSE mine[Len(mine)].top
             IN  IF p.side = "long"
                 THEN (IF RGt(new_sl, p.sl) THEN [p EXCEPT !.sl = new_sl] ELSE p)
                 ELSE (IF RLt(new_sl, p.sl) THEN [p EXCEPT !.sl = new_sl] ELSE p)

\* SMOGStrategy.manage_position
SMOGManagePosition(p, current_price, cndl) ==
    LET f == SMOGFillLoop(p, <<>>, current_price, 1)
    IN  IF AmtIsZero(f.pos.total_size)
        THEN f
        ELSE [pos |-> SMOGTrail(f.pos, cndl), log |-> f.log]

(***************************************************************************)
(* The engine's close(position, price, reason) (the engine loop is not     *)
(* among the sources: modelled from the specification, section 4.2).       *)
(***************************************************************************)
Close(p, x) == [p EXCEPT !.status = "closed", !.pnl = unrealized_pnl(p, x.price)]

(***************************************************************************)
(* Setup detection.  The indicator functions are imported; detect_setup    *)
(* is modelled over the values they return on the window (scan).           *)
(***************************************************************************)
NoSetup == [direction |-> "none"]
NoScan == [strategy |-> "none"]

\* an ADX reading: adx_values[-1], possibly NaN
AdxNaN == [nan |-> TRUE, v |-> R0]
Adx(v) == [nan |-> FALSE, v |-> v]

TCL_MIN_BARS == 200
min_trend_pct == get(params, "min_trend_pct", RInt(2))
\* the ADX threshold is read under the key tcl_min_adx
min_adx == get(params, "tcl_min_adx", RInt(20))
\* the ADX period, passed to the adx indicator, under the key tcl_adx_period
adx_period == get(params, "tcl_adx_period", 14)

\* trend_magnitude(high, low) = (high - low) / low * 100
trend_magnitude(high, low) == RMul(RDiv(RSub(high, low), low), RInt(100))

\* the window has the bars detect_setup asks for
TCLEnoughBarsOffByOne(s) == s.len >= TCL_MIN_BARS - 1
TCLEnoughBars(s) == ~(s.len < TCL_MIN_BARS)

\* current_adx with a NaN reading counted as 50.0, as SMOG counts it
TCLCurrentAdxNaNAsFifty(s) == IF s.adx.nan THEN RInt(50) ELSE s.adx.v

\* current_adx of TCL detect_setup: a NaN reading counts as 0.0
TCLCurrentAdx(s) == IF s.adx.nan THEN R0 ELSE s.adx.v

\* the ADX filter of TCL detect_setup
TCLAdxRejectsAtThreshold(s) == RLe(TCLCurrentAdx(s), min_adx)
TCLAdxRejects(s) == RLt(TCLCurrentAdx(s), min_adx)

\* detect_setup without the continuation break
TCLDetectSetupNoBreak(s) ==
    IF ~TCLEnoughBars(s) THEN NoSetup
    ELSE IF s.trend = "none" THEN NoSetup
    ELSE IF TCLAdxRejects(s) THEN NoSetup
    ELSE LET mag == trend_magnitude(s.trend_high, s.trend_low)
         IN  IF RLt(mag, min_trend_pct) THEN NoSetup
             ELSE IF s.parabolic THEN NoSetup
             ELSE [direction |-> s.trend, trend_high |-> s.trend_high,
                   trend_low |-> s.trend_low, trend_pct |-> mag,
                   adx |-> TCLCurrentAdx(s)]

\* TCLStrategy.detect_setup
TCLDetectSetup(s) ==
    IF ~TCLEnoughBars(s) THEN NoSetup
    ELSE IF s.trend = "none" THEN NoSetup
    ELSE IF TCLAdxRejects(s) THEN NoSetup
    ELSE LET mag == trend_magnitude(s.trend_high, s.trend_low)
         IN  IF RLt(mag, min_trend_pct) THEN NoSetup
             ELSE IF s.parabolic THEN NoSetup
             ELSE IF s.trend = "long" /\ RLe(s.recent_high, s.prior_high) THEN NoSetup
             ELSE IF s.trend = "short" /\ RGe(s.recent_low, s.prior_low) THEN NoSetup
             ELSE [direction |-> s.trend, trend_high |-> s.trend_high,
                   trend_low |-> s.trend_low, trend_pct |-> mag,
                   adx |-> TCLCurrentAdx(s)]

SMOG_MIN_BARS == 50
adx_threshold == RInt(25)

SMOGEnoughBars(s) == ~(s.len < SMOG_MIN_BARS)

\* current_adx of SMOG detect_setup: a NaN reading counts as 50.0
SMOGCurrentAdx(s) == IF s.adx.nan THEN RInt(50) ELSE s.adx.v

\* the ADX filter of SMOG detect_setup
SMOGAdxRejects(s) == RGe(SMOGCurrentAdx(s), adx_threshold)

\* detect_setup taking the oldest matching gap
SMOGDetectSetupOldestGap(s) ==
    IF ~SMOGEnoughBars(s) THEN NoSetup
    ELSE IF SMOGAdxRejects(s) THEN NoSetup
    ELSE IF s.divergence = "none" THEN NoSetup
    ELSE IF s.choch = "none" THEN NoSetup
    ELSE IF s.choch # s.divergence THEN NoSetup
    ELSE LET matching_fvgs == FvgsOfType(s.fvgs, s.divergence)
         IN  IF matching_fvgs = <<>> THEN NoSetup
             ELSE [direction |-> IF s.divergence = "bullish" THEN "long" ELSE "short",
                   adx |-> SMOGCurrentAdx(s),
                   divergence |-> s.divergence,
                   choch |-> [type |-> s.choch],
                   fvg |-> matching_fvgs[1]]

\* SMOGStrategy.detect_setup
SMOGDetectSetup(s) ==
    IF ~SMOGEnoughBars(s) THEN NoSetup
    ELSE IF SMOGAdxRejects(s) THEN NoSetup
    ELSE IF s.divergence = "none" THEN NoSetup
    ELSE IF s.choch = "none" THEN NoSetup
    ELSE IF s.choch # s.divergence THEN NoSetup
    ELSE LET matching_fvgs == FvgsOfType(s.fvgs, s.divergence)
         IN  IF matching_fvgs = <<>> THEN NoSetup
             ELSE [direction |-> IF s.divergence = "bullish" THEN "long" ELSE "short",
                   adx |-> SMOGCurrentAdx(s),
                   divergence |-> s.divergence,
                   choch |-> [type |-> s.choch],
                   fvg |-> matching_fvgs[Len(matching_fvgs)]]

(***************************************************************************)
(* Inputs.                                                                 *)
(***************************************************************************)
Bar(high, low, close) == [high |-> high, low |-> low, close |-> close]

\* k copies of a bar
Flat(bar, k) == [i \in 1..k |-> bar]

\* the window after a new bar: append, keep the last KeepBars
Ingest(cndl, bar) == LastK(Append(cndl, bar), KeepBars)

Balances == {RInt(1000), RInt(10000)}

\* trend extremes as find_trend_extremes returns them: a 1%, a 3% and a
\* 100% trend
TCLExtremes ==
    { [trend_high |-> RInt(101), trend_low |-> RInt(100)],
      [trend_high |-> RInt(103), trend_low |-> RInt(100)],
      [trend_high |-> RInt(200), trend_low |-> RInt(100)] }

\* the extremes of the last 20 bars and of the 20 before them: the recent
\* ones beyond the prior ones on both sides, or equal to them
TCLSwings ==
    { [recent_high |-> RInt(2), prior_high |-> RInt(1),
       recent_low |-> RInt(1), prior_low |-> RInt(2)],
      [recent_high |-> RInt(1), prior_high |-> RInt(1),
       recent_low |-> RInt(1), prior_low |-> RInt(1)] }

\* what TCL detect_setup can see: one bar short of its minimum or exactly
\* the minimum, ADX undefined, just below or exactly at min_adx
TCLScans ==
    { [strategy |-> "TCL", len |-> n, trend |-> t, adx |-> a,
       trend_high |-> e.trend_high, trend_low |-> e.trend_low, parabolic |-> pb,
       recent_high |-> w.recent_high, prior_high |-> w.prior_high,
       recent_low |-> w.recent_low, prior_low |-> w.prior_low] :
         n \in {TCL_MIN_BARS - 1, TCL_MIN_BARS},
         t \in {"none", "long", "short"},
         a \in {AdxNaN, Adx(RInt(19)), Adx(min_adx)},
         e \in TCLExtremes, pb \in BOOLEAN, w \in TCLSwings }

\* the options dicts a TCL strategy is constructed with: none; the ADX
\* threshold and period under the keys min_adx / adx_period; the threshold
\* under the key tcl_min_adx; all three multipliers zero; a higher minimum
\* magnitude with another manage number
TCLConfigs ==
    { {},
      {<<"min_adx", RInt(30)>>, <<"adx_period", 20>>},
      {<<"tcl_min_adx", RInt(30)>>},
      {<<"entry_mult", 0>>, <<"limit1_mult", 0>>, <<"limit2_mult", 0>>},
      {<<"min_trend_pct", RInt(5)>>, <<"manage1", RInt(2)>>} }

\* the windows a configured strategy scans: as TCLScans, with an ADX of 25
\* or 30
TCLConfigScans ==
    { [strategy |-> "TCL", len |-> n, trend |-> t, adx |-> a,
       trend_high |-> e.trend_high, trend_low |-> e.trend_low, parabolic |-> pb,
       recent_high |-> w.recent_high, prior_high |-> w.prior_high,
       recent_low |-> w.recent_low, prior_low |-> w.prior_low] :
         n \in {TCL_MIN_BARS - 1, TCL_MIN_BARS},
         t \in {"none", "long", "short"},
         a \in {Adx(RInt(25)), Adx(RInt(30))},
         e \in TCLExtremes, pb \in BOOLEAN, w \in TCLSwings }

\* the window at the time a TCL position is created: flat at limit2's level
TCLWindow(p) ==
    Flat(Bar(p.orders[3].entry_price, p.orders[3].entry_price,
             p.orders[3].entry_price), KeepBars)

\* the price levels a TCL tick can close at: the trend extreme that is the
\* entry order's take-profit, the three order levels, the creation stop
TCLPrices(p) ==
    {p.orders[1].tp, p.orders[1].entry_price, p.orders[2].entry_price,
     p.orders[3].entry_price, p.orders[1].sl}

\* the bars of a TCL tick: the close at a level, and the extreme the
\* breakeven trigger reads either at the close or at the trend extreme
TCLLevelBars(p) ==
    IF p.side = "long"
    THEN UNION {{Bar(h, c, c) : h \in {c, p.orders[1].tp}} : c \in TCLPrices(p)}
    ELSE UNION {{Bar(c, l, c) : l \in {c, p.orders[1].tp}} : c \in TCLPrices(p)}

\* the price at which a position with fills stands at r times the distance
\* from avg_entry to its sl (r < 0: on the adverse side)
TCLPriceAtR(p, r) ==
    IF p.side = "long"
    THEN RAdd(p.avg_entry, RMul(r, RAbs(RSub(p.avg_entry, p.sl))))
    ELSE RSub(p.avg_entry, RMul(r, RAbs(RSub(p.avg_entry, p.sl))))

\* for a position with fills, the closes that sit exactly on a barrier:
\* the scale-in threshold -0.20R and a price beyond it at -0.25R, the
\* position's take-profit and its stop-loss
TCLBarrierPrices(p) ==
    IF AmtPos(p.total_size)
    THEN {TCLPriceAtR(p, SCALE_IN_R), TCLPriceAtR(p, R(-25, 100)), p.tp, p.sl}
    ELSE {}

\* for a position with fills, a bar that closes at avg_entry and whose
\* extreme is exactly on the 0.25% band
TCLBandBars(p) ==
    IF ~AmtPos(p.total_size) THEN {}
    ELSE IF p.side = "long"
    THEN {Bar(RMul(p.avg_entry, BE_TRIGGER_LONG), p.avg_entry, p.avg_entry)}
    ELSE {Bar(p.avg_entry, RMul(p.avg_entry, BE_TRIGGER_SHORT), p.avg_entry)}

TCLBars(p) ==
    TCLLevelBars(p) \cup {Bar(c, c, c) : c \in TCLBarrierPrices(p)} \cup TCLBandBars(p)

\* a gap as detect_fvgs reports it
Fvg(type, bottom, top) ==
    [type |-> type, bottom |-> bottom, top |-> top,
     midpoint |-> RDiv(RAdd(bottom, top), RInt(2))]

\* what detect_fvgs(lookback=20) returns to detect_setup, oldest gap first:
\* nothing; a bullish or a bearish gap between 100 and 102; older gaps of
\* both kinds followed by those two; a gap of either kind on a bad print
\* at price zero
SMOGGaps ==
    { <<>>,
      << Fvg("bullish", RInt(100), RInt(102)) >>,
      << Fvg("bearish", RInt(100), RInt(102)) >>,
      << Fvg("bullish", RInt(96), RInt(98)), Fvg("bearish", RInt(104), RInt(106)),
         Fvg("bearish", RInt(100), RInt(102)), Fvg("bullish", RInt(100), RInt(102)) >>,
      << Fvg("bullish", R0, R0) >>,
      << Fvg("bearish", R0, R0) >> }

\* what SMOG detect_setup can see: one bar short of its minimum or exactly
\* the minimum, ADX undefined, just below or exactly at adx_threshold
SMOGScans ==
    { [strategy |-> "SMOG", len |-> n, adx |-> a, divergence |-> dv,
       choch |-> ch, fvgs |-> g] :
         n \in {SMOG_MIN_BARS - 1, SMOG_MIN_BARS},
         a \in {AdxNaN, Adx(RInt(24)), Adx(adx_threshold)},
         dv \in {"none", "bullish", "bearish"},
         ch \in {"none", "bullish", "bearish"},
         g \in SMOGGaps }

\* the short side's bars mirror the long side's about 101
Mirror(bar) ==
    Bar(RSub(RInt(202), bar.low), RSub(RInt(202), bar.high), RSub(RInt(202), bar.close))

\* the window at the time a SMOG position is created: flat bars, then the
\* three bars that form the setup's gap
SMOGWindowLong ==
    Flat(Bar(RInt(100), RInt(99), RInt(100)), KeepBars - 2)
    \o << Bar(RInt(103), RInt(100), RInt(103)), Bar(RInt(104), RInt(102), RInt(104)) >>

SMOGWindow(p) ==
    IF p.side = "long" THEN SMOGWindowLong
    ELSE [i \in 1..Len(SMOGWindowLong) |-> Mirror(SMOGWindowLong[i])]

SMOGBarsLong ==
    UNION {{Bar(RInt(h), RInt(h - 1), RInt(c)) : c \in {h - 1, h}} : h \in {101, 105, 107}}

SMOGBars(p) ==
    IF p.side = "long" THEN SMOGBarsLong ELSE {Mirror(b) : b \in SMOGBarsLong}

(***************************************************************************)
(* The state machine.                                                      *)
(***************************************************************************)
Init ==
    /\ pos = NoPos
    /\ candles = <<>>
    /\ ticks = 0
    /\ exit = NoExit
    /\ fill_log = <<>>
    /\ balance = R0
    /\ scan = NoScan
    /\ detected = NoSetup
    /\ params = {}

\* with no position, detect_setup runs on the current window
TCLDetect ==
    /\ pos = NoPos
    /\ \E s \in TCLScans :
          /\ scan' = s
          /\ detected' = TCLDetectSetup(s)
    /\ UNCHANGED <<pos, candles, ticks, exit, fill_log, balance, params>>

SMOGDetect ==
    /\ pos = NoPos
    /\ \E s \in SMOGScans :
          /\ scan' = s
          /\ detected' = SMOGDetectSetup(s)
    /\ UNCHANGED <<pos, candles, ticks, exit, fill_log, balance, params>>

\* detect_setup found a setup: calculate_entries builds the position
TCLOpen ==
    /\ pos = NoPos
    /\ scan.strategy = "TCL"
    /\ detected # NoSetup
    /\ \E b \in Balances :
          /\ balance' = b
          /\ pos' = TCLCalculateEntries(detected, b)
          /\ candles' = TCLWindow(pos')
    /\ UNCHANGED <<ticks, exit, fill_log, scan, detected, params>>

SMOGOpen ==
    /\ pos = NoPos
    /\ scan.strategy = "SMOG"
    /\ detected # NoSetup
    /\ \E b \in Balances :
          /\ balance' = b
          /\ pos' = SMOGCalculateEntries(detected, b)
          /\ pos' # NoPos
          /\ candles' = SMOGWindow(pos')
    /\ UNCHANGED <<ticks, exit, fill_log, scan, detected, params>>

\* a tick: the new bar joins the window, manage_position runs at its close
TCLTick ==
    /\ pos.strategy = "TCL"
    /\ ticks < MaxTicks
    /\ \E bar \in TCLBars(pos) :
          LET m == TCLManagePosition(pos, bar.close, Ingest(candles, bar))
          IN  /\ candles' = Ingest(candles, bar)
              /\ pos' = m.pos
              /\ fill_log' = fill_log \o m.log
    /\ ticks' = ticks + 1
    /\ UNCHANGED <<exit, balance, scan, detected, params>>

SMOGTick ==
    /\ pos.strategy = "SMOG"
    /\ ticks < MaxTicks
    /\ \E bar \in SMOGBars(pos) :
          LET m == SMOGManagePosition(pos, bar.close, Ingest(candles, bar))
          IN  /\ candles' = Ingest(candles, bar)
              /\ pos' = m.pos
              /\ fill_log' = fill_log \o m.log
    /\ ticks' = ticks + 1
    /\ UNCHANGED <<exit, balance, scan, detected, params>>

\* should_exit at the last close; on an exit the engine closes the position
Exit ==
    /\ pos.strategy # "none"
    /\ pos.status = "open"
    /\ ticks > 0
    /\ LET x == should_exit(pos, candles[Len(candles)].close)
       IN  /\ x # NoExit
           /\ pos' = Close(pos, x)
           /\ exit' = x
    /\ UNCHANGED <<candles, ticks, fill_log, balance, scan, detected, params>>

Next ==
    \/ TCLDetect \/ SMOGDetect
    \/ TCLOpen \/ SMOGOpen
    \/ TCLTick \/ SMOGTick
    \/ Exit

Spec == Init /\ [][Next]_vars

(***************************************************************************)
(* The configured strategy: TCLStrategy(params) is constructed with one of *)
(* the options dicts, scans a window and builds the position.              *)
(***************************************************************************)
InitConfig ==
    /\ pos = NoPos
    /\ candles = <<>>
    /\ ticks = 0
    /\ exit = NoExit
    /\ fill_log = <<>>
    /\ balance = R0
    /\ scan = NoScan
    /\ detected = NoSetup
    /\ params \in TCLConfigs

TCLConfigDetect ==
    /\ pos = NoPos
    /\ \E s \in TCLConfigScans :
          /\ scan' = s
          /\ detected' = TCLDetectSetup(s)
    /\ UNCHANGED <<pos, candles, ticks, exit, fill_log, balance, params>>

NextConfig == TCLConfigDetect \/ TCLOpen

SpecConfig == InitConfig /\ [][NextConfig]_vars

(***************************************************************************)
(* Properties.                                                             *)
(***************************************************************************)
Created == pos.strategy # "none"
IsLong == pos.side = "long"

FilledIdx(p) == {i \in 1..Len(p.orders) : p.orders[i].status = "filled"}
PendingIdx(p) == {i \in 1..Len(p.orders) : p.orders[i].status = "pending"}
CancelledIdx(p) == {i \in 1..Len(p.orders) : p.orders[i].status = "cancelled"}

\* the sum of f(order) over the filled orders from index i on
RECURSIVE SumFilled(_, _, _)
SumFilled(p, f(_), i) ==
    IF i > Len(p.orders) THEN AmtZero
    ELSE AmtAdd(IF p.orders[i].status = "filled" THEN f(p.orders[i]) ELSE AmtZero,
                SumFilled(p, f, i + 1))

OrderSize(o) == o.size_usd
OrderNotional(o) == AmtScale(o.entry_price, o.size_usd)

\* x is within 0.5% of y, for BigRats x, y >= 0
Within05(x, y) ==
    /\ BRLe(x, BRMul(BROfRat(Dec3(1005)), y))
    /\ BRLe(BRMul(BROfRat(Dec3(995)), y), x)

\* the risk cap R of the claims, from the balance calculate_entries was given
RiskCapR ==
    RMin(RDiv(RMul(balance, RInt(2)), RInt(100)), RDiv(RMul(balance, RInt(50)), RInt(100)))

\* C1: after any sequence of manage_position ticks total_size is the sum of
\* size_usd over the filled orders and avg_entry * total_size the sum of
\* size_usd * entry_price over them; every filled order was filled by exactly
\* one fill_order call.
C1_FillAccounting ==
    Created =>
      /\ AmtEq(pos.total_size, SumFilled(pos, OrderSize, 1))
      /\ AmtEq(AmtScale(pos.avg_entry, pos.total_size), SumFilled(pos, OrderNotional, 1))
      /\ Len(fill_log) = Cardinality(FilledIdx(pos))
      /\ {fill_log[j] : j \in 1..Len(fill_log)} = FilledIdx(pos)

\* two orders filled on different ticks and the third cancelled
C1_Witness ==
    /\ pos.strategy = "TCL"
    /\ ticks >= 3
    /\ FilledIdx(pos) = {1, 2}
    /\ CancelledIdx(pos) = {3}
    /\ pos.avg_entry # pos.orders[1].entry_price

\* the loss of order o if it is filled at its entry price and stopped at its sl
OrderLossAtSl(o) == AmtVal(AmtScale(get_risk_pct(o.entry_price, o.sl), o.size_usd))

\* C2: for every TCL position calculate_entries returns (balance > 0), the
\* sum over its three orders of size_usd * |entry_price - sl| / entry_price
\* is within 0.5% of the risk cap R.
C2_RiskCap ==
    (pos.strategy = "TCL" /\ ticks = 0) =>
      Within05(BRAdd(BRAdd(OrderLossAtSl(pos.orders[1]), OrderLossAtSl(pos.orders[2])),
                     OrderLossAtSl(pos.orders[3])),
               BROfRat(RiskCapR))

\* a short position just created for the smaller balance
C2_Witness ==
    /\ pos.strategy = "TCL"
    /\ ticks = 0
    /\ pos.side = "short"
    /\ balance = RInt(1000)
    /\ AmtPos(pos.orders[3].size_usd)

\* C3 (as stated): a TCL position whose three orders have all filled at
\* their entry prices and whose stop is still the one set at creation
\* reports, at the stop price, a loss within 0.5% of the risk cap R.
C3_LossAtSlIsR ==
    (pos.strategy = "TCL" /\ FilledIdx(pos) = {1, 2, 3} /\ pos.sl = pos.orders[1].sl) =>
      Within05(AmtVal(AmtScale(RInt(-1), unrealized_pnl(pos, pos.sl))), BROfRat(RiskCapR))

\* C4 (as stated): after every manage_position tick on a position with at
\* least one filled order, a long has sl < avg_entry < tp and a short has
\* tp < avg_entry < sl.
C4_StopEntryTargetOrder ==
    (Created /\ ticks > 0 /\ FilledIdx(pos) # {}) =>
      IF IsLong
      THEN RLt(pos.sl, pos.avg_entry) /\ RLt(pos.avg_entry, pos.tp)
      ELSE RLt(pos.tp, pos.avg_entry) /\ RLt(pos.avg_entry, pos.sl)

\* the fields C5 names
C5Fields(p) ==
    <<[i \in 1..Len(p.orders) |-> p.orders[i].status], p.avg_entry, p.total_size,
      p.tp, p.sl, p.sl_moved_to_be>>

\* C5 (as stated): once a position's status is 'closed', no later
\* manage_position call changes its order statuses, avg_entry, total_size,
\* tp, sl or sl_moved_to_be.
C5_ClosedIsFrozen ==
    [][pos.status = "closed" => C5Fields(pos') = C5Fields(pos)]_vars

\* C6 (as stated): for every position calculate_entries returns (TCL or
\* SMOG), original_sl equals the sl of its first order and its initial sl.
C6_OriginalSlCaptured ==
    (Created /\ ticks = 0) =>
      /\ pos.original_sl = pos.orders[1].sl
      /\ pos.original_sl = pos.sl

\* C7: no manage_position or should_exit/close step changes a position's
\* original_sl, also when sl itself is moved.
C7_OriginalSlImmutable ==
    [][Created => pos'.original_sl = pos.original_sl]_vars

\* the stop has moved (breakeven or trailing) after creation
C7_Witness ==
    /\ Created
    /\ ticks >= 2
    /\ pos.sl # pos.orders[1].sl
    /\ pos.status = "closed"

NoDuplicates(log) == Cardinality({log[j] : j \in 1..Len(log)}) = Len(log)

\* C8: across manage_position ticks a filled order stays filled, a
\* cancelled order stays cancelled, and no order is passed to fill_order
\* twice.
C8_OrderStatusTerminal ==
    [][ /\ \A i \in 1..Len(pos.orders) :
             /\ pos.orders[i].status = "filled" => pos'.orders[i].status = "filled"
             /\ pos.orders[i].status = "cancelled" => pos'.orders[i].status = "cancelled"
        /\ NoDuplicates(fill_log') ]_vars

\* entry filled on the first tick, limit1 on the second, limit2 cancelled
\* by the gate, and one more tick at the entry level after that
C8_Witness ==
    /\ pos.strategy = "TCL"
    /\ ticks = 3
    /\ fill_log = <<1, 2>>
    /\ CancelledIdx(pos) = {3}
    /\ candles[Len(candles)].close = pos.orders[1].entry_price

\* C9: for a TCL position, once sl_moved_to_be is true every later step
\* leaves sl at least as favourable (long: not lower; short: not higher).
C9_BreakevenSlMonotone ==
    [][(pos.strategy = "TCL" /\ pos.sl_moved_to_be) =>
         IF IsLong THEN RGe(pos'.sl, pos.sl) ELSE RLe(pos'.sl, pos.sl)]_vars

\* the entry fills and the stop migrates on the first tick (close at the
\* entry level, high at the trend high); the second tick closes at limit1's
\* level, where the gate cancels the rest
C9_Witness ==
    /\ pos.strategy = "TCL"
    /\ ticks = 2
    /\ pos.sl_moved_to_be
    /\ candles[Len(candles) - 1].close = pos.orders[1].entry_price
    /\ candles[Len(candles) - 1].high = pos.orders[1].tp
    /\ candles[Len(candles)].close = pos.orders[2].entry_price
    /\ FilledIdx(pos) = {1}
    /\ CancelledIdx(pos) = {2, 3}

\* the boundary of the most recent matching gap in the trailing lookback
TrailBoundary(p, cndl) ==
    LET mine == FvgsOfType(detect_fvgs(cndl, 10),
                           IF p.side = "long" THEN "bullish" ELSE "bearish")
    IN  IF mine = <<>> THEN [def |-> FALSE, at |-> R0]
        ELSE [def |-> TRUE,
              at |-> IF p.side = "long" THEN mine[Len(mine)].bottom
                     ELSE mine[Len(mine)].top]

TCLOthersHold(s) ==
    /\ s.trend # "none"
    /\ RGe(trend_magnitude(s.trend_high, s.trend_low), RInt(2))
    /\ ~s.parabolic
    /\ s.trend = "long" => RGt(s.recent_high, s.prior_high)
    /\ s.trend = "short" => RLt(s.recent_low, s.prior_low)

\* the conditions of SMOG detect_setup other than the window length and ADX
SMOGOthersHold(s) ==
    /\ s.divergence # "none"
    /\ s.choch = s.divergence
    /\ \E i \in 1..Len(s.fvgs) : s.fvgs[i].type = s.divergence

\* C11: TCL detect_setup returns no setup on a window of fewer than 200
\* bars and SMOG detect_setup none on a window of fewer than 50 bars,
\* whatever the indicators return.
C11_MinimumBars ==
    /\ (scan.strategy = "TCL" /\ scan.len < 200) => detected = NoSetup
    /\ (scan.strategy = "SMOG" /\ scan.len < 50) => detected = NoSetup

\* a 199-bar window on which every other TCL condition holds
C11_Witness ==
    /\ scan.strategy = "TCL"
    /\ scan.len = 199
    /\ TCLOthersHold(scan)
    /\ scan.adx = Adx(RInt(20))
    /\ detected = NoSetup

\* C12: with enough bars, every other condition satisfied and a defined ADX
\* reading, TCL detect_setup rejects exactly when ADX < 20, so it accepts
\* at ADX = 20; SMOG detect_setup accepts exactly when ADX < 25, so it
\* rejects at ADX = 25.
C12_AdxAtThreshold ==
    /\ (scan.strategy = "TCL" /\ scan.len >= 200 /\ TCLOthersHold(scan) /\ ~scan.adx.nan) =>
         /\ detected = NoSetup <=> RLt(scan.adx.v, RInt(20))
         /\ scan.adx.v = RInt(20) => detected # NoSetup
    /\ (scan.strategy = "SMOG" /\ scan.len >= 50 /\ SMOGOthersHold(scan) /\ ~scan.adx.nan) =>
         /\ detected # NoSetup <=> RLt(scan.adx.v, RInt(25))
         /\ scan.adx.v = RInt(25) => detected = NoSetup

\* TCL accepted a scan whose ADX is exactly 20
C12_Witness ==
    /\ scan.strategy = "TCL"
    /\ ~scan.adx.nan
    /\ scan.adx.v = RInt(20)
    /\ detected # NoSetup
    /\ pos = NoPos

\* a manage_position call has just run: the price it was given
IsTick == ticks' = ticks + 1
TickPrice == candles'[Len(candles')].close

\* unrealized_pct / risk_pct of a position with fills, risk_pct taken from
\* avg_entry to the stop sl
RMultiple(p, price, sl) ==
    LET risk_pct   == RDiv(RAbs(RSub(p.avg_entry, sl)), p.avg_entry)
        unreal_pct == IF p.side = "long"
                      THEN RDiv(RSub(price, p.avg_entry), p.avg_entry)
                      ELSE RDiv(RSub(p.avg_entry, price), p.avg_entry)
    IN  RDiv(unreal_pct, risk_pct)

\* C13: on a TCL tick of a position with total_size > 0, when current_r =
\* unrealized_pct / risk_pct is strictly below -0.20 every pending order
\* becomes cancelled, and when it is -0.20 or higher no order is cancelled.
C13_GateThreshold ==
    [][(pos.strategy = "TCL" /\ IsTick /\ AmtPos(pos.total_size)) =>
         IF RLt(RMultiple(pos, TickPrice, pos.sl), R(-20, 100))
         THEN /\ PendingIdx(pos') = {}
              /\ CancelledIdx(pos') = CancelledIdx(pos) \cup PendingIdx(pos)
         ELSE CancelledIdx(pos') = CancelledIdx(pos)]_vars

\* entry and limit1 filled, the stop still the creation stop, and a tick at
\* -0.25R, above limit2's level, has cancelled exactly limit2
C13_Witness ==
    /\ pos.strategy = "TCL"
    /\ IsLong
    /\ fill_log = <<1, 2>>
    /\ CancelledIdx(pos) = {3}
    /\ ~pos.sl_moved_to_be
    /\ candles[Len(candles)].close = TCLPriceAtR(pos, R(-25, 100))
    /\ RGt(candles[Len(candles)].close, pos.orders[3].entry_price)

\* C14 (as stated): on every TCL tick of a position with fills, also after
\* breakeven migration, the scale-in gate cancels the pending orders
\* exactly when the adverse move, measured against the distance from
\* avg_entry to the stop set at creation, is below -0.20R.
C14_GateMeasuresOriginalStop ==
    [][(pos.strategy = "TCL" /\ IsTick /\ AmtPos(pos.total_size) /\ PendingIdx(pos) # {}) =>
         (CancelledIdx(pos') # CancelledIdx(pos)
            <=> RLt(RMultiple(pos, TickPrice, pos.orders[1].sl), R(-20, 100)))]_vars

\* the pending orders whose level the price has reached, inclusively
AtOrBeyond(p, price) ==
    {i \in PendingIdx(p) :
        IF p.side = "long" THEN RLe(price, p.orders[i].entry_price)
        ELSE RGe(price, p.orders[i].entry_price)}

\* what a tick that examines every pending order does: the orders whose
\* level is reached are filled, each once, and the others stay pending
FillsExactlyReached ==
    /\ \A i \in PendingIdx(pos) :
          pos'.orders[i].status =
             IF i \in AtOrBeyond(pos, TickPrice) THEN "filled" ELSE "pending"
    /\ Len(fill_log') = Len(fill_log) + Cardinality(AtOrBeyond(pos, TickPrice))

\* the TCL scale-in gate fires on this tick
GateTick ==
    /\ pos.strategy = "TCL"
    /\ AmtPos(pos.total_size)
    /\ RLt(RMultiple(pos, TickPrice, pos.sl), R(-20, 100))

\* C15 (as stated): on every manage_position tick each pending long order
\* is filled exactly when current_price <= its entry_price and each pending
\* short order exactly when current_price >= its entry_price.
C15_EveryTickFillsReached ==
    [][(Created /\ IsTick) => FillsExactlyReached]_vars

\* C15 (amended): the same on every manage_position tick on which the TCL
\* scale-in gate does not fire (a tick on which it fires cancels the
\* pending orders before any of them is examined for a fill).
C15_UngatedTickFillsReached ==
    [][(Created /\ IsTick /\ ~GateTick) => FillsExactlyReached]_vars

\* one tick exactly at limit2's level has filled all three orders
C15_Witness ==
    /\ pos.strategy = "TCL"
    /\ ticks = 1
    /\ fill_log = <<1, 2, 3>>
    /\ candles[Len(candles)].close = pos.orders[3].entry_price

\* C16: in a TCL position the orders fill in list order: limit1 is never
\* filled while entry is pending, limit2 never while limit1 is pending, the
\* calls of fill_order come in the order entry, limit1, limit2, and the
\* entry order is never cancelled.
C16_FillsInListOrder ==
    pos.strategy = "TCL" =>
      /\ pos.orders[2].status = "filled" => pos.orders[1].status # "pending"
      /\ pos.orders[3].status = "filled" => pos.orders[2].status # "pending"
      /\ pos.orders[1].status # "cancelled"
      /\ \A j \in 1..Len(fill_log) : \A k \in 1..Len(fill_log) :
            j < k => fill_log[j] < fill_log[k]

\* entry filled on the first tick and limit1 on the second, limit2 pending
C16_Witness ==
    /\ pos.strategy = "TCL"
    /\ ticks = 2
    /\ fill_log = <<1, 2>>
    /\ PendingIdx(pos) = {3}
    /\ candles[Len(candles) - 1].close = pos.orders[1].entry_price
    /\ candles[Len(candles)].close = pos.orders[2].entry_price

\* one of the last five bars is at or beyond the 0.25% band around avg_entry
BandTouched(p, cndl) ==
    \E j \in 1..Len(cndl) :
       /\ j > Len(cndl) - 5
       /\ IF p.side = "long"
          THEN RGe(cndl[j].high, RMul(p.avg_entry, Dec4(10025)))
          ELSE RLe(cndl[j].low, RMul(p.avg_entry, Dec4(9975)))

\* the stop at breakeven plus the cushion
BreakevenStop(p) ==
    RMul(p.avg_entry, IF p.side = "long" THEN Dec3(1001) ELSE Dec3(999))

\* C17 (as stated): on a TCL tick that reaches the breakeven step (the gate
\* does not fire, the position has fills) with sl_moved_to_be false, if one
\* of the last 5 bars has its high (long) at or above avg_entry * 1.0025,
\* or its low (short) at or below avg_entry * 0.9975, equality included,
\* then sl becomes avg_entry * 1.001 (long) or avg_entry * 0.999 (short)
\* and sl_moved_to_be becomes true.
C17_BreakevenAtBand ==
    [][(pos.strategy = "TCL" /\ IsTick /\ ~pos.sl_moved_to_be /\ ~GateTick
          /\ AmtPos(pos'.total_size) /\ BandTouched(pos', candles')) =>
         /\ pos'.sl_moved_to_be
         /\ pos'.sl = BreakevenStop(pos')]_vars

\* C18: in a TCL position sl_moved_to_be, once true, stays true, and the
\* migration is applied at most once: sl changes only on the step that
\* sets the flag and never after it.
C18_BreakevenOnce ==
    [][pos.strategy = "TCL" =>
         /\ pos.sl_moved_to_be => (pos'.sl_moved_to_be /\ pos'.sl = pos.sl)
         /\ pos'.sl # pos.sl => (~pos.sl_moved_to_be /\ pos'.sl_moved_to_be)]_vars

\* the stop migrated on the first tick, and the band is touched again on
\* the third: the stop is still the one computed at the migration
C18_Witness ==
    /\ pos.strategy = "TCL"
    /\ IsLong
    /\ ticks = 3
    /\ pos.sl_moved_to_be
    /\ candles[Len(candles) - 2].close = pos.orders[1].entry_price
    /\ candles[Len(candles) - 2].high = pos.orders[1].tp
    /\ candles[Len(candles)].high = pos.orders[1].tp
    /\ pos.sl = BreakevenStop(pos)
    /\ pos.status = "open"

\* C19: when a TCL position whose stop has been migrated to breakeven is
\* closed on an exit with reason 'sl', the exit price is on the profitable
\* side of avg_entry (long: above it; short: below it).
C19_BreakevenExitIsGain ==
    [][(pos.strategy = "TCL" /\ pos.sl_moved_to_be /\ pos.status = "open"
          /\ pos'.status = "closed" /\ exit'.reason = "sl") =>
         IF IsLong THEN RGt(exit'.price, pos'.avg_entry)
         ELSE RLt(exit'.price, pos'.avg_entry)]_vars

\* a long closed at its breakeven stop, with two orders filled
C19_Witness ==
    /\ pos.strategy = "TCL"
    /\ IsLong
    /\ pos.status = "closed"
    /\ pos.sl_moved_to_be
    /\ exit.reason = "sl"
    /\ exit.price = BreakevenStop(pos)
    /\ FilledIdx(pos) = {1, 2}
    /\ AmtPos(pos.pnl)

\* the price is at or beyond the take-profit / the stop-loss
TpHit(p, price) == IF p.side = "long" THEN RGe(price, p.tp) ELSE RLe(price, p.tp)
SlHit(p, price) == IF p.side = "long" THEN RLe(price, p.sl) ELSE RGe(price, p.sl)

\* C20: should_exit on a position with fills gives 'tp' exactly when the
\* price is at or beyond tp, otherwise 'sl' exactly when it is at or beyond
\* sl, otherwise no exit; with total_size = 0 it gives no exit.
C20_ExitCheck ==
    (Created /\ ticks > 0) =>
      LET price == candles[Len(candles)].close
          x     == should_exit(pos, price)
      IN  /\ AmtIsZero(pos.total_size) => x = NoExit
          /\ ~AmtIsZero(pos.total_size) =>
               /\ x.reason = "tp" <=> TpHit(pos, price)
               /\ x.reason = "sl" <=> (~TpHit(pos, price) /\ SlHit(pos, price))
               /\ x = NoExit <=> (~TpHit(pos, price) /\ ~SlHit(pos, price))

\* a position closed with reason 'tp' at a price that is exactly its tp and
\* is also beyond its (migrated) stop
C20_Witness ==
    /\ Created
    /\ pos.status = "closed"
    /\ exit.reason = "tp"
    /\ candles[Len(candles)].close = pos.tp
    /\ SlHit(pos, candles[Len(candles)].close)
    /\ should_exit(pos, candles[Len(candles)].close).reason = "tp"

\* C21: TCL calculate_entries opens no position when sizing fails: a
\* position it returned has a risk factor above zero, and none of its
\* orders has zero size.
C21_NoPositionOnSizingFailure ==
    (pos.strategy = "TCL" /\ ticks = 0) =>
        /\ ~BRIsZero(TCLRiskFactor(TCLLevels(pos.metadata)))
        /\ \A i \in 1..Len(pos.orders) : ~AmtIsZero(pos.orders[i].size_usd)

\* C22: with the default parameters the scale-in gate lets limit1 fill and
\* keeps limit2 from filling: on a TCL tick at limit1's level with only the
\* entry order filled, limit1 fills; on a TCL tick at limit2's level with
\* entry and limit1 filled, limit2 is cancelled.
C22_GateCalibration ==
    [][(IsTick /\ pos.strategy = "TCL" /\ pos.orders[1].status = "filled") =>
          /\ (/\ pos.orders[2].status = "pending"
              /\ pos.orders[3].status = "pending"
              /\ TickPrice = pos.orders[2].entry_price)
                => pos'.orders[2].status = "filled"
          /\ (/\ pos.orders[2].status = "filled"
              /\ pos.orders[3].status = "pending"
              /\ TickPrice = pos.orders[3].entry_price)
                => pos'.orders[3].status = "cancelled"]_vars

\* the orders a step fills, and the last of them in list order
NewlyFilled ==
    { i \in 1..Len(pos.orders) :
        pos.orders[i].status # "filled" /\ pos'.orders[i].status = "filled" }

LastOf(S) == CHOOSE i \in S : \A j \in S : j <= i

\* C23: after a TCL tick on which orders fill, the position's tp is the tp
\* of the last order filled on that tick in list order; on a TCL tick with
\* no fill tp is unchanged; the tp of a SMOG position never changes.
C23_TpFollowsLastFill ==
    [][/\ (IsTick /\ pos.strategy = "TCL") =>
             IF NewlyFilled = {}
             THEN pos'.tp = pos.tp
             ELSE pos'.tp = pos.orders[LastOf(NewlyFilled)].tp
       /\ pos.strategy = "SMOG" => pos'.tp = pos.tp]_vars

\* one TCL tick has filled entry and limit1, and tp is limit1's, not entry's
C23_Witness ==
    /\ pos.strategy = "TCL" /\ ticks = 1 /\ fill_log = <<1, 2>>
    /\ pos.tp = pos.orders[2].tp /\ pos.tp # pos.orders[1].tp

\* a position as calculate_entries returned it: no tick has run on it
Fresh == Created /\ ticks = 0

C25_StopAndTargets ==
    (Fresh /\ pos.strategy = "TCL") =>
        LET hi == pos.metadata.trend_high
            lo == pos.metadata.trend_low
            D  == RSub(hi, lo)
            o  == pos.orders
        IN  /\ pos.tp = o[1].tp
            /\ IsLong =>
                  /\ pos.sl = RMul(lo, R(998, 1000))
                  /\ o[1].tp = hi
                  /\ o[2].tp = RAdd(o[2].entry_price, RDiv(D, RInt(4)))
                  /\ o[3].tp = RAdd(o[3].entry_price, RDiv(D, R(73, 10)))
            /\ ~IsLong =>
                  /\ pos.sl = RMul(hi, R(1002, 1000))
                  /\ o[1].tp = lo
                  /\ o[2].tp = RSub(o[2].entry_price, RDiv(D, RInt(4)))
                  /\ o[3].tp = RSub(o[3].entry_price, RDiv(D, R(73, 10)))

\* a long position over the trend 100..200 has just been created: stop
\* 99.8, limit1's target 25 above limit1's level
C25_Witness ==
    /\ Fresh /\ pos.strategy = "TCL" /\ IsLong
    /\ pos.metadata.trend_high = RInt(200) /\ pos.metadata.trend_low = RInt(100)
    /\ pos.sl = R(998, 10)
    /\ RSub(pos.orders[2].tp, pos.orders[2].entry_price) = RInt(25)

\* the stop SMOG calculate_entries derives from a setup's gap, and the
\* distance from the gap's midpoint to it on the losing side
SMOGStopOf(setup) ==
    IF setup.direction = "long"
    THEN RMul(setup.fvg.bottom, R(999, 1000))
    ELSE RMul(setup.fvg.top, R(1001, 1000))

SMOGStopDistance(setup) ==
    IF setup.direction = "long"
    THEN RSub(setup.fvg.midpoint, SMOGStopOf(setup))
    ELSE RSub(SMOGStopOf(setup), setup.fvg.midpoint)

\* C26: a SMOG position from calculate_entries has its entry at the gap's
\* midpoint, sl = fvg.bottom * 0.999 (long) or fvg.top * 1.001 (short), tp
\* at exactly min_rr = 4 times the entry-to-sl distance on the profit side,
\* and size_usd * |entry - sl| / entry = balance * 1.5 / 100; for a setup
\* whose entry-to-sl distance is not positive no position is returned.
C26_SmogEntries ==
    /\ (Fresh /\ pos.strategy = "SMOG") =>
          LET o     == pos.orders[1]
              entry == o.entry_price
              dist  == RAbs(RSub(entry, pos.sl))
          IN  /\ entry = pos.metadata.fvg.midpoint
              /\ pos.sl = SMOGStopOf(pos.metadata)
              /\ pos.tp = IF IsLong THEN RAdd(entry, RMul(RInt(4), dist))
                          ELSE RSub(entry, RMul(RInt(4), dist))
              /\ o.tp = pos.tp /\ o.sl = pos.sl
              /\ AmtEq(AmtScale(RDiv(dist, entry), o.size_usd),
                       AmtOfRat(RDiv(RMul(balance, R(15, 10)), RInt(100))))
              /\ RGt(SMOGStopDistance(pos.metadata), R0)
    /\ (scan.strategy = "SMOG" /\ detected # NoSetup
          /\ RLe(SMOGStopDistance(detected), R0)) =>
          \A b \in Balances : SMOGCalculateEntries(detected, b) = NoPos

\* a short SMOG position on the gap 100..102 has just been created with a
\* balance of 1000: entry 101, stop 102.102, target 96.592
C26_Witness ==
    /\ Fresh /\ pos.strategy = "SMOG" /\ ~IsLong /\ balance = RInt(1000)
    /\ pos.orders[1].entry_price = RInt(101)
    /\ pos.sl = R(102102, 1000)
    /\ pos.tp = R(96592, 1000)

\* the index in the scan's gap list of the most recent gap of a polarity
LastGapOfType(s, type) ==
    CHOOSE i \in 1..Len(s.fvgs) :
        /\ s.fvgs[i].type = type
        /\ \A j \in (i + 1)..Len(s.fvgs) : s.fvgs[j].type # type

C28_TclSetupConditions ==
    scan.strategy = "TCL" =>
        LET adx_ok == ~scan.adx.nan /\ RGe(scan.adx.v, RInt(20))
        IN  /\ detected # NoSetup =>
                 /\ adx_ok
                 /\ TCLOthersHold(scan)
                 /\ detected.direction = scan.trend
                 /\ detected.trend_high = scan.trend_high
                 /\ detected.trend_low = scan.trend_low
            /\ (scan.len >= 200 /\ adx_ok /\ TCLOthersHold(scan)) =>
                 detected # NoSetup

\* a short setup has been returned on a window whose lowest low of the last
\* 20 bars is below that of the 20 before
C28_Witness ==
    /\ scan.strategy = "TCL" /\ pos = NoPos
    /\ detected # NoSetup
    /\ detected.direction = "short"
    /\ RLt(scan.recent_low, scan.prior_low)
    /\ ~scan.parabolic

\* C29: a TCL strategy constructed with the options min_adx and adx_period
\* uses those values as its ADX threshold and ADX period: its detect_setup
\* returns no setup on a window whose ADX is below the configured min_adx,
\* and its ADX period is the configured adx_period.
C29_ConfiguredAdxOptions ==
    \A kv \in params :
        /\ (kv[1] = "min_adx" /\ scan.strategy = "TCL" /\ ~scan.adx.nan
              /\ RLt(scan.adx.v, kv[2])) => detected = NoSetup
        /\ kv[1] = "adx_period" => adx_period = kv[2]

\* the prices unrealized_pnl is evaluated at: the last close, the
\* position's take-profit and its stop
MarkPrices ==
    {pos.tp, pos.sl} \cup
    (IF candles = <<>> THEN {} ELSE {candles[Len(candles)].close})

\* C30: unrealized_pnl(price) is 0 whenever total_size = 0; otherwise it is
\* (price - avg_entry) / avg_entry * total_size for a long and the negation
\* of that for a short, that is, pnl * avg_entry = (price - avg_entry) *
\* total_size with the sign turned for a short.
C30_UnrealizedPnl ==
    Created =>
        \A price \in MarkPrices :
            LET pnl == unrealized_pnl(pos, price)
                gap == IF IsLong THEN RSub(price, pos.avg_entry)
                       ELSE RSub(pos.avg_entry, price)
            IN  IF AmtIsZero(pos.total_size) THEN AmtIsZero(pnl)
                ELSE /\ AmtEq(AmtScale(pos.avg_entry, pnl),
                              AmtScale(gap, pos.total_size))
                     /\ AmtPos(pnl) <=> RGt(gap, R0)
                     /\ AmtIsZero(pnl) <=> gap = R0

\* a short with fills is marked at a close below its average entry: a gain
C30_Witness ==
    /\ Created /\ ~IsLong /\ AmtPos(pos.total_size) /\ ticks > 0
    /\ RLt(candles[Len(candles)].close, pos.avg_entry)
    /\ AmtPos(unrealized_pnl(pos, candles[Len(candles)].close))

\* C31 (as stated): whenever TCL should_exit returns reason 'tp', the price
\* it reports is on the profitable side of the position's avg_entry: above
\* it for a long, below it for a short.
C31_TpExitIsProfit ==
    (pos.strategy = "TCL" /\ ticks > 0 /\ ~AmtIsZero(pos.total_size)) =>
        LET x == should_exit(pos, candles[Len(candles)].close)
        IN  x.reason = "tp" =>
                IF IsLong THEN RGt(x.price, pos.avg_entry)
                ELSE RLt(x.price, pos.avg_entry)

\* C32 (as stated): a TCL tick that migrates the stop to breakeven leaves
\* it on the losing side of the price the tick was called with (below it
\* for a long, above it for a short), so should_exit at that price does not
\* return an 'sl' exit.
C32_BreakevenClearOfPrice ==
    [][(pos.strategy = "TCL" /\ IsTick /\ ~pos.sl_moved_to_be /\ pos'.sl_moved_to_be) =>
          /\ IF IsLong THEN RLt(pos'.sl, TickPrice) ELSE RGt(pos'.sl, TickPrice)
          /\ should_exit(pos', TickPrice).reason # "sl"]_vars

\* the tick's price is at or beyond limit2's level
AtLimit2(p, price) ==
    IF p.side = "long" THEN RLe(price, p.orders[3].entry_price)
    ELSE RGe(price, p.orders[3].entry_price)

\* C33 (as stated): in a TCL position limit2 becomes filled only on a tick
\* at whose start no order of the position was filled; on every tick that
\* starts with total_size > 0 and a price at or beyond limit2's level,
\* limit2 ends cancelled.
C33_Limit2EndsCancelled ==
    [][(pos.strategy = "TCL" /\ IsTick) =>
          /\ (pos.orders[3].status # "filled" /\ pos'.orders[3].status = "filled")
                => FilledIdx(pos) = {}
          /\ (AmtPos(pos.total_size) /\ AtLimit2(pos, TickPrice))
                => pos'.orders[3].status = "cancelled"]_vars

\* C33 (amended): in a TCL position limit2 becomes filled only on a tick at
\* whose start no order of the position was filled; on every tick that
\* starts with total_size > 0, limit2 not already filled and a price at or
\* beyond limit2's level, limit2 ends cancelled.
C33_Limit2OnlyWithAll ==
    [][(pos.strategy = "TCL" /\ IsTick) =>
          /\ (pos.orders[3].status # "filled" /\ pos'.orders[3].status = "filled")
                => FilledIdx(pos) = {}
          /\ (AmtPos(pos.total_size) /\ pos.orders[3].status # "filled"
                /\ AtLimit2(pos, TickPrice))
                => pos'.orders[3].status = "cancelled"]_vars

\* entry and limit1 filled on earlier ticks with the stop unmoved, then a
\* tick at limit2's level: limit2 is cancelled
C33_Witness ==
    /\ pos.strategy = "TCL" /\ ticks = 3
    /\ fill_log = <<1, 2>>
    /\ ~pos.sl_moved_to_be
    /\ pos.orders[3].status = "cancelled"
    /\ candles[Len(candles)].close = pos.orders[3].entry_price
    /\ candles[Len(candles) - 1].close = pos.orders[2].entry_price

\* C34: on a TCL tick on which the scale-in gate condition holds
\* (total_size > 0 and current_r < -0.20) nothing changes but the status of
\* the pending orders, which become cancelled: no order is filled,
\* avg_entry, total_size, tp, sl and sl_moved_to_be keep their values, and
\* the breakeven step does not run, whether or not an order was pending.
C34_GateTickFrame ==
    [][(IsTick /\ GateTick) =>
          /\ fill_log' = fill_log
          /\ pos' = [pos EXCEPT !.orders =
                       [i \in 1..Len(pos.orders) |->
                          IF pos.orders[i].status = "pending"
                          THEN [pos.orders[i] EXCEPT !.status = "cancelled"]
                          ELSE pos.orders[i]]]]_vars

\* all three orders filled on the first tick; the second tick closes at
\* limit2's level, below -0.20R, on a bar whose high touches the breakeven
\* band: nothing was pending, and the stop has not migrated
C34_Witness ==
    /\ pos.strategy = "TCL" /\ ticks = 2
    /\ fill_log = <<1, 2, 3>>
    /\ candles[Len(candles) - 1].high = pos.orders[3].entry_price
    /\ candles[Len(candles)].close = pos.orders[3].entry_price
    /\ RLt(RMultiple(pos, candles[Len(candles)].close, pos.sl), R(-20, 100))
    /\ BandTouched(pos, candles)
    /\ ~pos.sl_moved_to_be

\* C35: a manage_position tick (TCL or SMOG) after which the position still
\* has total_size = 0 changes nothing in it: sl, tp and sl_moved_to_be keep
\* their values and no order is cancelled or filled.
C35_UnfilledTickFrame ==
    [][(Created /\ IsTick /\ AmtIsZero(pos'.total_size)) =>
          /\ pos' = pos
          /\ fill_log' = fill_log]_vars

\* two ticks have run on a TCL long without a fill, on a window longer than
\* five bars whose highs are above 1.0025 times the avg_entry of 0
C35_Witness ==
    /\ pos.strategy = "TCL" /\ IsLong /\ ticks = 2
    /\ AmtIsZero(pos.total_size)
    /\ PendingIdx(pos) = {1, 2, 3}
    /\ Len(candles) > 5
    /\ TCLBreakevenTouched(pos, candles)
    /\ ~pos.sl_moved_to_be

\* C36: the price should_exit reports is the position's tp for reason 'tp'
\* and the position's sl for reason 'sl', whatever the current price; and
\* the call changes no field of the position or its orders: across the step
\* that acts on its answer the position differs only in the status and pnl
\* that closing it sets.
C36_ExitReportsLevel ==
    [][(Created /\ ticks > 0) =>
          LET x == should_exit(pos, candles[Len(candles)].close)
          IN  /\ x.reason = "tp" => x.price = pos.tp
              /\ x.reason = "sl" => x.price = pos.sl
              /\ exit' # exit =>
                    /\ exit' = x
                    /\ pos' = [pos EXCEPT !.status = "closed", !.pnl = pos'.pnl]]_vars

\* a position closed on an 'sl' answer at a close beyond its stop: the
\* price reported is the stop, and the position's levels are as they were
C36_Witness ==
    /\ Created /\ pos.status = "closed"
    /\ exit.reason = "sl"
    /\ exit.price = pos.sl
    /\ candles[Len(candles)].close # pos.sl
    /\ SlHit(pos, candles[Len(candles)].close)

\* C37: when the latest ADX value is undefined (NaN) neither strategy, with
\* its default parameters, detects a setup, whatever the other conditions.
C37_UndefinedAdxNoSetup ==
    (scan.strategy # "none" /\ scan.adx.nan) => detected = NoSetup

\* a 200-bar window with an undefined ADX on which every other TCL
\* condition holds has been scanned
C37_Witness ==
    /\ scan.strategy = "TCL" /\ scan.adx.nan
    /\ scan.len >= 200
    /\ TCLOthersHold(scan)
    /\ detected = NoSetup

\* total_size of b is not below that of a (amounts of one position)
AmtNotBelow(a, b) ==
    IF AmtIsZero(a) THEN TRUE
    ELSE ~AmtIsZero(b) /\ (IF a.u = b.u THEN RGe(b.k, a.k) ELSE BRLe(AmtVal(a), AmtVal(b)))

\* C38: over the lifetime of a TCL position sl changes at most once: only
\* from the stop set at creation, only by the breakeven migration, and only
\* to a more favourable value (higher for a long, lower for a short); and
\* total_size never decreases from one step to the next.
C38_StopMovesOnceSizeGrows ==
    [][pos.strategy = "TCL" =>
          /\ pos'.sl # pos.sl =>
                /\ pos.sl = pos.orders[1].sl
                /\ ~pos.sl_moved_to_be /\ pos'.sl_moved_to_be
                /\ pos'.sl = BreakevenStop(pos')
                /\ IF IsLong THEN RGt(pos'.sl, pos.sl) ELSE RLt(pos'.sl, pos.sl)
          /\ pos.sl # pos.orders[1].sl => pos'.sl = pos.sl
          /\ AmtNotBelow(pos.total_size, pos'.total_size)]_vars

\* entry filled on the first tick and limit1 on the second, three ticks
\* run, and the stop has migrated from the creation stop to breakeven
C38_Witness ==
    /\ pos.strategy = "TCL" /\ ticks = 3
    /\ fill_log = <<1, 2>>
    /\ candles[Len(candles) - 2].close = pos.orders[1].entry_price
    /\ candles[Len(candles) - 1].close = pos.orders[2].entry_price
    /\ pos.sl_moved_to_be
    /\ pos.sl = BreakevenStop(pos)
    /\ pos.sl # pos.orders[1].sl

====
